---- MODULE Spec2Model ----
(***************************************************************************)
(* Model of the text fitting done by NewsGenerator (src/generator.py) and  *)
(* of the two entry points that hand text to it: the chat plugin           *)
(* (src/main.py, message_received) and the command line of generator.py.   *)
(*                                                                         *)
(* A text is a sequence of code points.  Widths are kept in tenths of a    *)
(* pixel and heights in halves of a pixel so that every comparison of the  *)
(* code is an integer comparison.                                          *)
(***************************************************************************)
EXTENDS Integers, Sequences, FiniteSets

(***************************************************************************)
(* Bounds of the model.                                                    *)
(***************************************************************************)
\* every text of at most this many code points is an input
MaxLen == 3

(***************************************************************************)
(* Code points.                                                            *)
(***************************************************************************)
\* the code points texts are made of: U+0020 SPACE, U+0061 "a" and
\* U+1F600 GRINNING FACE
Alphabet == {32, 97, 128512}

\* unicodedata.category, restricted to the code points of the model
Category(c) ==
    CASE c = 32 -> "Zs"
      [] c = 97 -> "Ll"
      [] c = 128512 -> "So"
      [] OTHER -> "Lo"

\* NewsGenerator._has_emoji: one code point
IsEmojiChar(c) == Category(c) = "So" \/ (c >= 126976 /\ c <= 129535)

\* NewsGenerator._has_emoji: any code point of the text
HasEmoji(t) == \E i \in 1..Len(t) : IsEmojiChar(t[i])

(***************************************************************************)
(* textwrap.wrap(text, width, break_long_words=True,                       *)
(* break_on_hyphens=False), as the standard library computes it.           *)
(***************************************************************************)
\* str.isspace for the code points of the model
IsSpace(c) == c = 32

\* s.strip() == '' : true of the empty string too
IsBlank(s) == \A i \in 1..Len(s) : IsSpace(s[i])

\* length of the maximal leading run of t whose members are all whitespace
\* or all non-whitespace (t non-empty)
RunLen(t) ==
    CHOOSE k \in 1..Len(t) :
        /\ \A i \in 1..k : IsSpace(t[i]) = IsSpace(t[1])
        /\ (k = Len(t) \/ IsSpace(t[k + 1]) # IsSpace(t[1]))

\* TextWrapper._split with wordsep_simple_re: alternating runs of
\* non-whitespace and whitespace
RECURSIVE SplitChunks(_)
SplitChunks(t) ==
    IF t = <<>> THEN <<>>
    ELSE LET k == RunLen(t)
         IN  <<SubSeq(t, 1, k)>> \o SplitChunks(SubSeq(t, k + 1, Len(t)))

\* ''.join(chunks)
RECURSIVE Join(_)
Join(chunks) ==
    IF chunks = <<>> THEN <<>> ELSE Head(chunks) \o Join(Tail(chunks))

\* sum(map(len, chunks))
RECURSIVE TotalLen(_)
TotalLen(chunks) ==
    IF chunks = <<>> THEN 0 ELSE Len(Head(chunks)) + TotalLen(Tail(chunks))

\* the inner while loop of _wrap_chunks: how many leading chunks go on the
\* current line
Taken(chunks, width) ==
    CHOOSE n \in 0..Len(chunks) :
        /\ TotalLen(SubSeq(chunks, 1, n)) <= width
        /\ (n = Len(chunks) \/ TotalLen(SubSeq(chunks, 1, n + 1)) > width)

\* TextWrapper._wrap_chunks (max_lines is None, no indents, drop_whitespace)
RECURSIVE WrapChunks(_, _, _)
WrapChunks(chunks, width, lines) ==
    IF chunks = <<>> THEN lines
    ELSE
      LET \* a whitespace chunk that would start a line other than the first
          c1 == IF IsBlank(chunks[1]) /\ lines # <<>> THEN Tail(chunks) ELSE chunks
          n == Taken(c1, width)
          cur == SubSeq(c1, 1, n)
          rest == SubSeq(c1, n + 1, Len(c1))
          curLen == TotalLen(cur)
          long == rest # <<>> /\ Len(rest[1]) > width
          \* _handle_long_word with break_long_words
          spaceLeft == IF width < 1 THEN 1 ELSE width - curLen
          cur2 == IF long THEN Append(cur, SubSeq(rest[1], 1, spaceLeft)) ELSE cur
          rest2 == IF long
                   THEN <<SubSeq(rest[1], spaceLeft + 1, Len(rest[1]))>> \o Tail(rest)
                   ELSE rest
          \* the last chunk of the line is all whitespace: drop it
          cur3 == IF cur2 # <<>> /\ IsBlank(cur2[Len(cur2)])
                  THEN SubSeq(cur2, 1, Len(cur2) - 1) ELSE cur2
          lines2 == IF cur3 # <<>> THEN Append(lines, Join(cur3)) ELSE lines
      IN  WrapChunks(rest2, width, lines2)

\* textwrap.wrap(text, width=cpl, break_long_words=True, break_on_hyphens=False)
Wrap(t, cpl) == WrapChunks(SplitChunks(t), cpl, <<>>)

(***************************************************************************)
(* Width measurement.  PIL's FreeTypeFont.getlength and pilmoji's getsize  *)
(* are libraries outside the repository; they are modelled as the sum of   *)
(* per-glyph advances, given in tenths of the font size.  The composite    *)
(* measurement draws an emoji at emoji_scale_factor = 1.3 times the font   *)
(* size and every other glyph with the main font.                          *)
(*                                                                         *)
(* The fonts are files outside the program.  font_path is "none" when the  *)
(* caller gave none, "valid" for a font file that opens, "absent" for a    *)
(* path that does not exist and "corrupt" for a file that exists and       *)
(* ImageFont.truetype cannot open.                                         *)
(***************************************************************************)
\* the size of the font ImageFont.load_default() returns: it is called without
\* the size that was asked for
DefaultFontSize == 10

\* the values of font_path
FontPaths == {"none", "valid", "absent", "corrupt"}

\* NewsGenerator._get_font: the font of the plain measurement.  "truetype"
\* when the file opens, "default" when it does not and load_default() answers,
\* "none" when that fails too and _get_font raises
GetFont(fontPath, defaultFont, builtinFont) ==
    LET opens == IF fontPath = "none" THEN defaultFont ELSE fontPath = "valid"
    IN  IF opens THEN "truetype"
        ELSE IF builtinFont THEN "default"
        ELSE "none"

\* _get_text_size_pilmoji and _draw_text_with_emoji: whether the
\* ImageFont.truetype call for main_font returns; it is not guarded, and the
\* error of a file that does not open leaves generate
MainFontOpens(fontPath, defaultFont) ==
    IF fontPath # "none" /\ fontPath # "absent"
    THEN fontPath = "valid"
    ELSE defaultFont

\* advance of one glyph in the main font, in tenths of an em
PlainAdvance(c) ==
    CASE c = 32 -> 3
      [] c = 97 -> 5
      [] OTHER -> 10

\* advance of one glyph as pilmoji lays it out, in tenths of an em
CompositeAdvance(c) == IF IsEmojiChar(c) THEN 13 ELSE PlainAdvance(c)

RECURSIVE SumAdvance(_, _)
SumAdvance(line, prov) ==
    IF line = <<>> THEN 0
    ELSE (IF prov = "composite" THEN CompositeAdvance(Head(line))
                                ELSE PlainAdvance(Head(line)))
         + SumAdvance(Tail(line), prov)

\* ten times the width of a line at a font size under a provider:
\* font.getlength(line) for "plain", where the default font has its own size
\* whatever font_size is, _get_text_size_pilmoji(line)[0] for "composite"
Width10(line, size, prov, fnt) ==
    IF prov = "plain" /\ fnt = "default"
    THEN DefaultFontSize * SumAdvance(line, prov)
    ELSE size * SumAdvance(line, prov)

\* the measurement of a line under a provider raises: _get_font found no
\* font at all, or the main font of the composite measurement does not open
MeasureRaises(prov, fnt, main) ==
    IF prov = "composite" THEN ~main ELSE fnt = "none"

\* get_text_width chooses the measurement from the class of the whole text
SearchProvider(emoji, available) ==
    IF emoji /\ available THEN "composite" ELSE "plain"

\* generate chooses the measurement of a rendered line from that line
RenderProvider(line, available) ==
    IF HasEmoji(line) /\ available THEN "composite" ELSE "plain"

\* max over the lines of get_text_width(line, font_size), times ten
RECURSIVE MaxLineWidth10(_, _, _, _)
MaxLineWidth10(ls, size, prov, fnt) ==
    IF ls = <<>> THEN 0
    ELSE LET w == Width10(Head(ls), size, prov, fnt)
             m == MaxLineWidth10(Tail(ls), size, prov, fnt)
         IN  IF w > m THEN w ELSE m

(***************************************************************************)
(* NewsGenerator._calculate_font_size                                      *)
(***************************************************************************)
\* the largest number of lines the search tries
MaxLines == 3

\* the amount font_size shrinks by
FontSizeStep == 5

\* initial_font_size and min_font_size as generate passes them
InitialFontSize == 90
MinFontSize == 70

\* a loop that would shrink the font by two steps at a time
NextFontSizeDouble(s) == s - 2 * FontSizeStep

\* font_size -= 5
NextFontSize(s) == s - FontSizeStep

\* a loop that would run for one more font size below the minimum
InLadderLoose(s) == s >= MinFontSize - FontSizeStep

\* while font_size >= min_font_size, asked of the size the loop would go to
InLadder(s) == s >= MinFontSize

\* a for loop that would try the wider budget before the narrower one
OffsetsWiderFirst == <<0, 1, -1, 2, -2>>

\* for cpl_adjust in [0, -1, 1, -2, 2]
Offsets == <<0, -1, 1, -2, 2>>

Max(a, b) == IF a > b THEN a ELSE b

\* chars_per_line = (len(text) + current_line_count - 1) // current_line_count
CharsPerLine(t, lineCount) == (Len(t) + lineCount - 1) \div lineCount

\* cpl = max(1, chars_per_line + cpl_adjust)
CandidateCpl(t, lineCount, adj) == Max(1, CharsPerLine(t, lineCount) + adj)

\* len(lines) != current_line_count: continue
LineCountMatches(t, lineCount, adj) ==
    Len(Wrap(t, CandidateCpl(t, lineCount, adj))) = lineCount

\* an acceptance test that would leave the height out
FitsBoxNoHeight(ls, lineCount, size, prov, fnt, w, h) ==
    MaxLineWidth10(ls, size, prov, fnt) <= 10 * w

\* an acceptance test with the comparison of the widths turned round
FitsBoxWidthReversed(ls, lineCount, size, prov, fnt, w, h) ==
    /\ MaxLineWidth10(ls, size, prov, fnt) >= 10 * w
    /\ 3 * lineCount * size <= 2 * h

\* max_line_width <= max_width and text_height <= max_height, for text
\* already wrapped; text_height = current_line_count * font_size * 1.5
FitsBox(ls, lineCount, size, prov, fnt, w, h) ==
    /\ MaxLineWidth10(ls, size, prov, fnt) <= 10 * w
    /\ 3 * lineCount * size <= 2 * h

\* one pass of the body of the for loop ends in "return font_size, cpl"
CandidateFits(t, lineCount, size, adj, prov, fnt, main, w, h) ==
    /\ LineCountMatches(t, lineCount, adj)
    /\ ~MeasureRaises(prov, fnt, main)
    /\ FitsBox(Wrap(t, CandidateCpl(t, lineCount, adj)), lineCount, size, prov, fnt, w, h)

\* return min_font_size, max(1, (len(text) + 2) // 3)
FallbackCpl(t) == Max(1, (Len(t) + 2) \div 3)

(***************************************************************************)
(* NewsGenerator.generate: the text box and the lines                      *)
(***************************************************************************)
\* text_max_width = int(img_width * 0.8)
TextMaxWidth(imgWidth) == (imgWidth * 8) \div 10

\* text_max_height = int(img_height * 0.6)
TextMaxHeight(imgHeight) == (imgHeight * 6) \div 10

\* lines[:3]
FirstThree(ls) == SubSeq(ls, 1, IF Len(ls) < 3 THEN Len(ls) ELSE 3)

\* a generate that would not cut the lines to three
GenerateLinesNoCut(t, cpl) ==
    LET first == Wrap(t, cpl)
    IN  IF first = <<>> /\ t # <<>> THEN <<t>> ELSE first

\* a generate that would cut to two lines whatever has more than two
GenerateLinesCutTwo(t, cpl) ==
    LET first == Wrap(t, cpl)
        forced == IF Len(first) > 2
                  THEN SubSeq(Wrap(t, FallbackCpl(t)), 1, 2) ELSE first
    IN  IF forced = <<>> /\ t # <<>> THEN <<t>> ELSE forced

\* the lines generate draws for the pair _calculate_font_size returned
GenerateLines(t, cpl) ==
    LET first == Wrap(t, cpl)
        forced == IF Len(first) > 3 THEN FirstThree(Wrap(t, FallbackCpl(t))) ELSE first
    IN  IF forced = <<>> /\ t # <<>> THEN <<t>> ELSE forced

(***************************************************************************)
(* GoodNewsGenerator (the plugin): message matching and _clean_text        *)
(***************************************************************************)
\* the code points of the two keywords
Xi == 21916
Bei == 24754
Bao == 25253

\* str.lstrip / str.rstrip / str.strip
RECURSIVE LStrip(_)
LStrip(s) == IF s # <<>> /\ IsSpace(Head(s)) THEN LStrip(Tail(s)) ELSE s

RECURSIVE RStrip(_)
RStrip(s) ==
    IF s # <<>> /\ IsSpace(s[Len(s)]) THEN RStrip(SubSeq(s, 1, Len(s) - 1)) ELSE s

Strip(s) == LStrip(RStrip(s))

\* re.sub(r'\s+', ' ', s): every run of whitespace becomes one space
RECURSIVE CollapseSpaces(_)
CollapseSpaces(s) ==
    IF s = <<>> THEN <<>>
    ELSE IF IsSpace(Head(s))
         THEN <<32>> \o CollapseSpaces(LStrip(s))
         ELSE <<Head(s)>> \o CollapseSpaces(Tail(s))

\* "内容为空"
Placeholder == <<20869, 23481, 20026, 31354>>

\* GoodNewsGenerator._clean_text
CleanText(s) ==
    LET cleaned == CollapseSpaces(Strip(s))
    IN  IF cleaned = <<>> THEN Placeholder ELSE cleaned

\* re.compile(r'^<keyword>\s+(.+)$').match(msg): whether it matches
NewsMatches(msg, first) ==
    /\ Len(msg) >= 4
    /\ msg[1] = first
    /\ msg[2] = Bao
    /\ IsSpace(msg[3])
    /\ LStrip(SubSeq(msg, 3, Len(msg))) # <<>>

\* group(1) of the match: \s+ is greedy and takes every leading space
NewsGroup(msg) == LStrip(SubSeq(msg, 3, Len(msg)))

(***************************************************************************)
(* Inputs                                                                  *)
(***************************************************************************)
\* every sequence of at most n code points of the alphabet
SeqsUpTo(n) == UNION {[1..k -> Alphabet] : k \in 0..n}

\* longer texts: "aa a aa a" and "aa \U0001F600 aa a", four words that the
\* wrap at ceil(len/3) puts on four lines; "a aaa", whose wrap at width 2
\* keeps the space after "a"; "aa aa", two words for two lines
LongTexts ==
    { <<97, 97, 32, 97, 32, 97, 97, 32, 97>>,
      <<97, 97, 32, 128512, 32, 97, 97, 32, 97>>,
      <<97, 32, 97, 97, 97>>,
      <<97, 97, 32, 97, 97>> }

\* the texts a caller passes on the command line
Texts == SeqsUpTo(MaxLen) \cup LongTexts

\* what follows the keyword in a chat message
Tails == {<<32>> \o t : t \in Texts} \cup SeqsUpTo(1)

\* the sizes of the background image: img.size of the template opened
ImageWidths == {50, 125}
ImageHeights == {200, 600}

VARIABLES
    pilmoji,     \* PILMOJI_AVAILABLE, fixed when the module is imported
    pc,          \* where the request is: "idle", "search", "wrap", "render",
                 \* "done", or "failed" when an exception left generate
    path,        \* the entry point of the request: "plugin", "cli", "none"
    text,        \* the text generate received
    maxWidth,    \* text_max_width
    maxHeight,   \* text_max_height
    font,        \* what _get_font gives this request: "truetype", "default", "none"
    mainFont,    \* whether the main font of the composite measurement opens
    hasEmoji,    \* has_emoji of _calculate_font_size
    lineCount,   \* current_line_count
    size,        \* font_size of the search loop
    oi,          \* position of the for loop in Offsets
    tried,       \* the candidates tried so far: <<line count, font size, offset>>
    measured,    \* how many of them were measured (their line count matched)
    searchProv,  \* the measurements get_text_width used
    accepted,    \* the search returned from inside the loop
    fontSize,    \* font_size returned to generate
    cpl,         \* chars_per_line returned to generate
    lines,       \* the lines generate draws
    ri,          \* the line generate draws next
    renderProv   \* the measurement used for each line drawn so far

vars == <<pilmoji, pc, path, text, maxWidth, maxHeight, font, mainFont, hasEmoji,
          lineCount, size, oi, tried, measured, searchProv, accepted, fontSize,
          cpl, lines, ri, renderProv>>

request == <<pilmoji, path, text, maxWidth, maxHeight, font, mainFont, hasEmoji>>
loop == <<lineCount, size, oi>>
result == <<accepted, fontSize, cpl>>
render == <<lines, ri, renderProv>>

\* no request in progress
Idle ==
    /\ pc = "idle"
    /\ path = "none"
    /\ text = <<>>
    /\ maxWidth = 0
    /\ maxHeight = 0
    /\ font = "none"
    /\ mainFont = FALSE
    /\ hasEmoji = FALSE
    /\ lineCount = 0
    /\ size = 0
    /\ oi = 0
    /\ tried = <<>>
    /\ measured = 0
    /\ searchProv = {}
    /\ accepted = FALSE
    /\ fontSize = 0
    /\ cpl = 0
    /\ lines = <<>>
    /\ ri = 0
    /\ renderProv = <<>>

Init == pilmoji \in BOOLEAN /\ Idle

\* generate(t, font_path=fontPath): open the template image, compute the text
\* box and enter _calculate_font_size(t, text_max_width, text_max_height, 90,
\* 70); a template image that does not open raises before anything else
Generate(t, opened, imgWidth, imgHeight, fontPath, defaultFont, builtinFont, entry) ==
    /\ path' = entry
    /\ text' = t
    /\ IF opened
       THEN /\ pc' = "search"
            /\ maxWidth' = TextMaxWidth(imgWidth)
            /\ maxHeight' = TextMaxHeight(imgHeight)
            /\ font' = GetFont(fontPath, defaultFont, builtinFont)
            /\ mainFont' = MainFontOpens(fontPath, defaultFont)
            /\ hasEmoji' = HasEmoji(t)
            /\ lineCount' = 1
            /\ size' = InitialFontSize
            /\ oi' = 1
       ELSE /\ pc' = "failed"
            /\ UNCHANGED <<maxWidth, maxHeight, font, mainFont, hasEmoji, loop>>
    /\ UNCHANGED <<pilmoji, tried, measured, searchProv, result, render>>

\* the message a handler receives: str(message_chain).strip()
Message(first, tail) == Strip(<<first, Bao>> \o tail)

\* GoodNewsGenerator.message_received for a message that matches one of the
\* two patterns; any other message leaves the state as it is.  The plugin
\* calls generate without a font_path
MessageReceived(first, tail, opened, imgWidth, imgHeight, defaultFont, builtinFont) ==
    /\ NewsMatches(Message(first, tail), first)
    /\ Generate(CleanText(NewsGroup(Message(first, tail))), opened, imgWidth, imgHeight,
                "none", defaultFont, builtinFont, "plugin")

\* python generator.py <text> [--font <path>]:
\* generate(args.text, font_path=args.font)
CommandLine(t, opened, imgWidth, imgHeight, fontPath, defaultFont, builtinFont) ==
    Generate(t, opened, imgWidth, imgHeight, fontPath, defaultFont, builtinFont, "cli")

\* the candidate the for loop is at
Adj == Offsets[oi]
Candidate == <<lineCount, size, Adj>>
Provider == SearchProvider(hasEmoji, pilmoji)

\* the candidate fits: return font_size, cpl
AcceptCandidate(c) ==
    /\ accepted' = TRUE
    /\ fontSize' = size
    /\ cpl' = c
    /\ pc' = "wrap"
    /\ UNCHANGED loop

\* the for loop is at its last offset, the font size cannot shrink further
\* and no line count is left
LastCandidate ==
    /\ oi = Len(Offsets)
    /\ ~InLadder(NextFontSize(size))
    /\ lineCount + 1 > MaxLines

\* the candidate does not fit and another one follows: the next offset, or
\* the next font size, or the next line count from the initial font size
RejectCandidate ==
    /\ IF oi < Len(Offsets)
       THEN /\ oi' = oi + 1
            /\ UNCHANGED <<lineCount, size>>
       ELSE IF InLadder(NextFontSize(size))
            THEN /\ oi' = 1
                 /\ size' = NextFontSize(size)
                 /\ UNCHANGED lineCount
            ELSE /\ oi' = 1
                 /\ size' = InitialFontSize
                 /\ lineCount' = lineCount + 1
    /\ UNCHANGED <<pc, result>>

\* the last candidate does not fit: return min_font_size, max(1, (len + 2) // 3)
Fallback ==
    /\ accepted' = FALSE
    /\ fontSize' = MinFontSize
    /\ cpl' = FallbackCpl(text)
    /\ pc' = "wrap"
    /\ UNCHANGED loop

\* get_text_width raises: the exception leaves _calculate_font_size and
\* generate
RaiseInSearch ==
    /\ pc' = "failed"
    /\ UNCHANGED <<loop, result>>

\* one pass of the body of the for loop of _calculate_font_size
TryCandidate ==
    /\ pc = "search"
    /\ LET c == CandidateCpl(text, lineCount, Adj)
           ls == Wrap(text, c)
           match == Len(ls) = lineCount
           raises == match /\ MeasureRaises(Provider, font, mainFont)
           fits == /\ match
                   /\ ~raises
                   /\ FitsBox(ls, lineCount, size, Provider, font, maxWidth, maxHeight)
       IN  /\ tried' = Append(tried, Candidate)
           /\ measured' = IF match /\ ~raises THEN measured + 1 ELSE measured
           /\ searchProv' = IF match THEN searchProv \cup {Provider} ELSE searchProv
           /\ IF raises THEN RaiseInSearch
              ELSE IF fits THEN AcceptCandidate(c)
              ELSE IF LastCandidate THEN Fallback
              ELSE RejectCandidate
    /\ UNCHANGED <<request, render>>

\* generate wraps the text at the returned chars_per_line
WrapLines ==
    /\ pc = "wrap"
    /\ lines' = GenerateLines(text, cpl)
    /\ ri' = 1
    /\ pc' = "render"
    /\ UNCHANGED <<request, loop, tried, measured, searchProv, result, renderProv>>

\* generate draws one line: a blank line is skipped, any other is measured
\* for centring under the class of that line and drawn with the font of that
\* measurement; the measurement raises when its font cannot be had
DrawLine ==
    /\ pc = "render"
    /\ ri <= Len(lines)
    /\ LET blank == IsBlank(lines[ri])
           prov == RenderProvider(lines[ri], pilmoji)
           raises == ~blank /\ MeasureRaises(prov, font, mainFont)
       IN  /\ renderProv' = Append(renderProv, IF blank THEN "none" ELSE prov)
           /\ ri' = IF raises THEN ri ELSE ri + 1
           /\ pc' = IF raises THEN "failed" ELSE pc
    /\ UNCHANGED <<request, loop, tried, measured, searchProv, result, lines>>

\* every line is drawn: the image is saved
Save ==
    /\ pc = "render"
    /\ ri > Len(lines)
    /\ pc' = "done"
    /\ UNCHANGED <<request, loop, tried, measured, searchProv, result, render>>

\* nothing of a request is kept once it is over
Forget ==
    /\ pc' = "idle"
    /\ path' = "none"
    /\ text' = <<>>
    /\ maxWidth' = 0
    /\ maxHeight' = 0
    /\ font' = "none"
    /\ mainFont' = FALSE
    /\ hasEmoji' = FALSE
    /\ lineCount' = 0
    /\ size' = 0
    /\ oi' = 0
    /\ tried' = <<>>
    /\ measured' = 0
    /\ searchProv' = {}
    /\ accepted' = FALSE
    /\ fontSize' = 0
    /\ cpl' = 0
    /\ lines' = <<>>
    /\ ri' = 0
    /\ renderProv' = <<>>
    /\ UNCHANGED pilmoji

\* generate returns the image
Return ==
    /\ pc = "done"
    /\ Forget

\* an exception left generate: _generate_and_send_image catches it and sends
\* the error as a message, the command line ends with it; no image is made
Raised ==
    /\ pc = "failed"
    /\ Forget

\* a chat message arrives while no request is in progress
ReceiveMessage ==
    /\ pc = "idle"
    /\ \E first \in {Xi, Bei}, tail \in Tails, opened \in BOOLEAN,
          w \in ImageWidths, h \in ImageHeights,
          defaultFont \in BOOLEAN, builtinFont \in BOOLEAN :
           MessageReceived(first, tail, opened, w, h, defaultFont, builtinFont)

\* generator.py is run from the command line
RunCommandLine ==
    /\ pc = "idle"
    /\ \E t \in Texts, opened \in BOOLEAN, w \in ImageWidths, h \in ImageHeights,
          fontPath \in FontPaths, defaultFont \in BOOLEAN, builtinFont \in BOOLEAN :
           CommandLine(t, opened, w, h, fontPath, defaultFont, builtinFont)

Next ==
    \/ ReceiveMessage
    \/ RunCommandLine
    \/ TryCandidate
    \/ WrapLines
    \/ DrawLine
    \/ Save
    \/ Return
    \/ Raised

Spec == Init /\ [][Next]_vars
(***************************************************************************)
(* Properties                                                              *)
(***************************************************************************)
\* _calculate_font_size has just returned to generate
Searched == pc = "wrap"

\* generate has computed the lines it draws
Rendered == pc \in {"render", "done"}

\* the font sizes the while loop visits
FontLadder ==
    {f \in MinFontSize..InitialFontSize : (InitialFontSize - f) % FontSizeStep = 0}

\* the text is what whitespace normalisation makes of it
Normalized(t) == CollapseSpaces(Strip(t)) = t

\* the code points of s that are not whitespace, in order
NoSpaces(s) == SelectSeq(s, LAMBDA c : ~IsSpace(c))

IsPrefix(a, b) == Len(a) <= Len(b) /\ SubSeq(b, 1, Len(a)) = a

\* ' '.join(ls)
RECURSIVE JoinWithSpaces(_)
JoinWithSpaces(ls) ==
    IF ls = <<>> THEN <<>>
    ELSE IF Len(ls) = 1 THEN ls[1]
    ELSE ls[1] \o <<32>> \o JoinWithSpaces(Tail(ls))

\* the candidate <<line count, font size, offset>> is accepted for the
\* request in progress
FitsCandidate(c) ==
    CandidateFits(text, c[1], c[2], c[3], Provider, font, mainFont, maxWidth, maxHeight)

\* C1 (fit validity): when the search returned from its acceptance branch,
\* every line generate draws is, under the measurement the search used and at
\* the returned font size, no wider than the box, and the lines at 1.5 times
\* the font size each are no higher than the box.
FitValidity ==
    (Rendered /\ accepted) =>
        /\ \A i \in 1..Len(lines) :
               Width10(lines[i], fontSize, Provider, font) <= 10 * maxWidth
        /\ 3 * Len(lines) * fontSize <= 2 * maxHeight

\* an accepted layout of several lines at a font size below the initial one
FitValidityWitness ==
    Rendered /\ accepted /\ Len(lines) > 1 /\ fontSize < InitialFontSize

\* C2 (line bound): for every non-empty text, accepted or not, generate draws
\* at least one and at most three lines.
LineBound ==
    (Rendered /\ text # <<>>) => (Len(lines) >= 1 /\ Len(lines) <= MaxLines)

\* the fallback wrap has more than three lines and generate cuts it
LineBoundWitness ==
    Rendered /\ ~accepted /\ Len(Wrap(text, cpl)) > MaxLines /\ Len(lines) = MaxLines

\* C3 as claimed (round trip): for a normalized text, joining the drawn lines
\* with single spaces gives the text back.
RoundTripExact ==
    (Rendered /\ Normalized(text)) => JoinWithSpaces(lines) = text

\* C3 as amended (no loss of characters short of truncation): for a
\* normalized text the drawn lines hold the text's non-whitespace code points
\* in order, none inserted; all of them when the wrap at the returned
\* chars_per_line has at most three lines, which is so whenever the search
\* accepted, and a prefix of them when the fallback wrap is cut to three.
NoWrapLoss ==
    (Rendered /\ Normalized(text)) =>
        LET got == NoSpaces(Join(lines))
            want == NoSpaces(text)
        IN  /\ IsPrefix(got, want)
            /\ (Len(Wrap(text, cpl)) <= MaxLines => got = want)
            /\ (accepted => Len(Wrap(text, cpl)) <= MaxLines)

\* a normalized text whose word is split over two lines of an accepted layout
NoWrapLossWitness ==
    /\ Rendered /\ Normalized(text) /\ accepted
    /\ Len(lines) > 1
    /\ JoinWithSpaces(lines) # text

\* C4 (monotonic preference): if some one-line candidate fits at some font
\* size of the ladder, the search accepts a one-line layout at the largest
\* such font size.
MonotonicPreference ==
    Searched =>
        LET fitting == {f \in FontLadder :
                           \E i \in 1..Len(Offsets) : FitsCandidate(<<1, f, Offsets[i]>>)}
        IN  fitting # {} =>
                /\ accepted
                /\ Len(Wrap(text, cpl)) = 1
                /\ fontSize \in fitting
                /\ \A f \in fitting : f <= fontSize

\* a text that fits on one line only below the initial font size
MonotonicPreferenceWitness ==
    /\ Searched /\ accepted
    /\ Len(Wrap(text, cpl)) = 1
    /\ fontSize < InitialFontSize
    /\ fontSize > MinFontSize

\* C5 (fallback outcome): when no candidate is accepted the search returns
\* the minimum font size and ceil(len(text) / 3), and generate draws the wrap
\* at that width cut to three lines.
FallbackOutcome ==
    (Rendered /\ ~accepted) =>
        /\ fontSize = MinFontSize
        /\ cpl = (Len(text) + 2) \div 3
        /\ lines = FirstThree(Wrap(text, cpl))

\* the same for a text with a non-whitespace code point
FallbackOutcomeOfVisibleText ==
    (Rendered /\ ~accepted /\ ~IsBlank(text)) =>
        /\ fontSize = MinFontSize
        /\ cpl = (Len(text) + 2) \div 3
        /\ lines = FirstThree(Wrap(text, cpl))

\* the boxes a box can shrink to, on a grid that holds the box itself
ShrunkWidths(w) == {x \in 0..w : x % 20 = 0} \cup {w}
ShrunkHeights(h) == {y \in 0..h : y % 45 = 0} \cup {h}

\* C6 (degradation monotonic): when the search for a box ended in the
\* fallback, no candidate of the search is accepted for any box that is no
\* wider and no higher, so the search for that box ends in the fallback too.
DegradationMonotonic ==
    (pc = "wrap" /\ ~accepted) =>
        \A lc \in 1..MaxLines, f \in FontLadder, i \in 1..Len(Offsets) :
            LET ls == Wrap(text, CandidateCpl(text, lc, Offsets[i]))
            IN  Len(ls) = lc =>
                    \A w \in ShrunkWidths(maxWidth), h \in ShrunkHeights(maxHeight) :
                        ~FitsBox(ls, lc, f, Provider, font, w, h)

\* a fallback for the wider and higher box of a text that can be wrapped
DegradationMonotonicWitness ==
    /\ pc = "wrap" /\ ~accepted
    /\ ~IsBlank(text)
    /\ \E w \in ImageWidths, h \in ImageHeights :
           TextMaxWidth(w) < maxWidth /\ TextMaxHeight(h) < maxHeight

\* C7 as claimed (bounded search): the candidates tried number at most
\* maxLines * ((initialFontSize - minFontSize) / fontSizeStep) * 5.
BoundedSearchAsClaimed ==
    Len(tried) <= MaxLines * ((InitialFontSize - MinFontSize) \div FontSizeStep) * 5

\* maxLines * ((initialFontSize - minFontSize) / fontSizeStep + 1) * 5
MostCandidates ==
    MaxLines * ((InitialFontSize - MinFontSize) \div FontSizeStep + 1) * 5

\* C7 as amended: the while loop runs for the minimum font size too, so the
\* candidates tried number at most
\* maxLines * ((initialFontSize - minFontSize) / fontSizeStep + 1) * 5; a
\* search that is still running has tried fewer, and every step of it tries
\* one candidate more: it ends.
BoundedSearch ==
    /\ [](Len(tried) <= MostCandidates /\ measured <= Len(tried))
    /\ [](pc = "search" => Len(tried) < MostCandidates)
    /\ [][pc = "search" => Len(tried') = Len(tried) + 1]_vars

\* a search that ran through every candidate
BoundedSearchWitness ==
    /\ pc = "wrap" /\ ~accepted
    /\ Len(tried) = MostCandidates
    /\ measured > 0

\* C8 (empty input recovery): the search never runs on an empty or
\* whitespace-only text, whatever entry point the text came through.
EmptyInputRecovery == pc = "search" => ~IsBlank(text)

\* the same for the texts that come through the plugin, which are normalized
EmptyInputRecoveryOfPlugin ==
    (pc = "search" /\ path = "plugin") => (~IsBlank(text) /\ Normalized(text))

\* the order the claim gives: line count 1..3, then font size from the
\* initial one down to the minimum in steps of 5, then offset 0, -1, +1, -2, +2
CandidateOrder ==
    LET sizes == (InitialFontSize - MinFontSize) \div 5 + 1
    IN  [i \in 1..(3 * sizes * 5) |->
            << 1 + (i - 1) \div (sizes * 5),
               InitialFontSize - 5 * (((i - 1) % (sizes * 5)) \div 5),
               <<0, -1, 1, -2, 2>>[1 + ((i - 1) % 5)] >>]

\* C9 (search order): the candidates are tried in lexicographic order, the
\* font size restarting at the initial one for each line count; the result is
\* the first candidate in that order that wraps to its line count and fits,
\* and the search falls back only after every candidate was tried and none
\* fitted.
SearchOrder ==
    /\ IsPrefix(tried, CandidateOrder)
    /\ pc = "search" =>
           /\ Len(tried) < Len(CandidateOrder)
           /\ Candidate = CandidateOrder[Len(tried) + 1]
    /\ (pc = "wrap" /\ accepted) =>
           /\ tried # <<>>
           /\ \A i \in 1..(Len(tried) - 1) : ~FitsCandidate(tried[i])
           /\ FitsCandidate(tried[Len(tried)])
           /\ fontSize = tried[Len(tried)][2]
           /\ cpl = CandidateCpl(text, tried[Len(tried)][1], tried[Len(tried)][3])
    /\ (pc = "wrap" /\ ~accepted) =>
           /\ tried = CandidateOrder
           /\ \A i \in 1..Len(tried) : ~FitsCandidate(tried[i])

\* an accepted candidate of two lines, below the initial font size and not at
\* the first offset
SearchOrderWitness ==
    /\ pc = "wrap" /\ accepted
    /\ tried[Len(tried)][1] = 2
    /\ tried[Len(tried)][2] < InitialFontSize
    /\ tried[Len(tried)][3] # 0

\* C10 (classify once, measure uniformly): when the text holds an emoji and
\* pilmoji is available, every measurement of the request, in the search and
\* for drawing, is the composite one.
ClassifyOnceMeasureUniformly ==
    (hasEmoji /\ pilmoji) =>
        /\ searchProv \subseteq {"composite"}
        /\ \A i \in 1..Len(renderProv) : renderProv[i] # "plain"

\* the same for the measurements of the search alone
SearchMeasuresUniformly ==
    (hasEmoji /\ pilmoji) => searchProv \subseteq {"composite"}
====
